---- MODULE Spec2Model ----
(***************************************************************************)
(* Jordan splitting of integral quadratic forms (siegel_series.py):        *)
(*   - does_2adically_rep_zero, the mod-8 isotropy test of a ternary       *)
(*     unit form,                                                          *)
(*   - _trans_jordan_dec_2, the recursive reduction of a list of odd       *)
(*     units at one scale to at most two units plus 'h'/'y' markers,       *)
(*   - jordan_blocks_2 / jordan_blocks_odd, the two splitters,             *)
(*   - siegel_series_polynomial and _siegel_series_polynomial_2.           *)
(* A block list entry is <<a, b>>; the strings "h" and "y" of the source   *)
(* are the two negative codes hyp2_name and y2_name, so that one list can  *)
(* hold residues and markers.                                              *)
(***************************************************************************)
EXTENDS Integers, Sequences, FiniteSets, TLC

VARIABLES
    \* ---- _trans_jordan_dec_2 run as a machine with an explicit call stack
    us0,      \* the argument of the outermost call
    stack,    \* call frames, the innermost last
    retval,   \* the list a call has just returned
    mode,     \* "run": the top frame starts; "ret": a callee returned; "done"
    called,   \* the last call of does_2adically_rep_zero: <<a, b, c, result>>
    \* ---- the splitters
    p,        \* the prime argument
    q,        \* q.jordan_blocks_by_scale_and_unimodular(p): <<a, q1>> pairs
    pc,       \* position in the code
    i,        \* index of the scale class the for loop is at
    a,        \* scale of the current class
    m,        \* the Gram matrix the while loop peels
    ls,       \* jordan_blocks_2: the raw list
    res,      \* jordan_blocks_odd: res
    u,        \* jordan_blocks_odd: least quadratic nonresidue
    blcs,     \* the returned block list
    q2        \* _siegel_series_polynomial_2: blcs[1:] of the Theorem 4.1 branch

redVars == <<us0, stack, retval, mode, called>>
splVars == <<p, q, pc, i, a, m, ls, res, u, blcs, q2>>
vars == <<us0, stack, retval, mode, called, p, q, pc, i, a, m, ls, res, u, blcs, q2>>

(***************************************************************************)
(* Bounds of the model.                                                    *)
(***************************************************************************)
MaxUnits == 6      \* longest list handed to the reducer machine
MaxDepth == 6      \* cap of the reducer machine's call stack
MaxRank == 5       \* largest rank of an input form of jordan_blocks_2
MaxRankOdd == 3    \* largest rank of an input form of jordan_blocks_odd
MaxEntry == 4      \* largest diagonal entry of a constituent at an odd p
MaxScale == 1      \* largest scale of a Jordan constituent

hyp2_name == -1
y2_name == -2

Residues == {1, 3, 5, 7}

\* isinstance(b, str) / b in ["h", "y"]
IsStr(b) == b \in {hyp2_name, y2_name}

RECURSIVE SeqsUpTo(_, _)
SeqsUpTo(S, n) ==
    IF n = 0 THEN {<<>>}
    ELSE LET shorter == SeqsUpTo(S, n - 1)
         IN shorter \cup {Append(s, x) : s \in {t \in shorter : Len(t) = n - 1}, x \in S}

(***************************************************************************)
(* does_2adically_rep_zero(a, b, c): x, y, z run over the square residues  *)
(* [0, 1, 4]; True at the first triple with an odd member and              *)
(* a*x + b*y + c*z = 0 mod 8.                                              *)
(***************************************************************************)
AnyOddMut(x, y, z) == TRUE

AnyOdd(x, y, z) == x % 2 = 1 \/ y % 2 = 1 \/ z % 2 = 1

does_2adically_rep_zero(ca, cb, cc) ==
    \E x \in {0, 1, 4} : \E y \in {0, 1, 4} : \E z \in {0, 1, 4} :
        AnyOdd(x, y, z) /\ (ca * x + cb * y + cc * z) % 8 = 0

(***************************************************************************)
(* _trans_jordan_dec_2, piece by piece.                                    *)
(***************************************************************************)
IsShortMut(us) == Len(us) <= 3

\* line 41: len(us) <= 2
IsShort(us) == Len(us) <= 2

Tail3Mut(us) == SubSeq(us, 1, Len(us))

\* line 45: us[3:]
Tail3(us) == SubSeq(us, 4, Len(us))

ExtendTripleMut(l, u1, u2, u3) ==
    IF does_2adically_rep_zero(u1, u2, u3)
    THEN l \o <<(-(u1 * u2 * u3)) % 8>>
    ELSE l \o <<(3 * (u1 * u2 * u3)) % 8>>

ExtendTripleSign(l, u1, u2, u3) ==
    IF does_2adically_rep_zero(u1, u2, u3)
    THEN l \o <<(u1 * u2 * u3) % 8, hyp2_name>>
    ELSE l \o <<(3 * (u1 * u2 * u3)) % 8, y2_name>>

\* lines 44, 46-49: l.extend([(-u) % 8, "h"]) or l.extend([(3*u) % 8, "y"])
ExtendTriple(l, u1, u2, u3) ==
    IF does_2adically_rep_zero(u1, u2, u3)
    THEN l \o <<(-(u1 * u2 * u3)) % 8, hyp2_name>>
    ELSE l \o <<(3 * (u1 * u2 * u3)) % 8, y2_name>>

\* line 50: l_diag
l_diag(l) == SelectSeq(l, LAMBDA b : ~IsStr(b))

\* line 54: l_non_diag
l_non_diag(l) == SelectSeq(l, LAMBDA b : IsStr(b))

RECURSIVE _trans_jordan_dec_2(_)
_trans_jordan_dec_2(us) ==
    IF IsShort(us) THEN us
    ELSE LET l == ExtendTriple(_trans_jordan_dec_2(Tail3(us)), us[1], us[2], us[3])
         IN IF Len(l_diag(l)) <= 2 THEN l
            ELSE _trans_jordan_dec_2(l_diag(l)) \o l_non_diag(l)

(***************************************************************************)
(* The same function as a machine: one frame per active call.              *)
(***************************************************************************)
Frame(us, at, keep) == [us |-> us, at |-> at, keep |-> keep]
Top == stack[Len(stack)]
Pop == SubSeq(stack, 1, Len(stack) - 1)
ReturnTo == IF Len(stack) = 1 THEN "done" ELSE "ret"

InitSplIdle ==
    /\ p = 0 /\ q = <<>> /\ pc = "idle" /\ i = 0 /\ a = 0 /\ m = <<>>
    /\ ls = <<>> /\ res = <<>> /\ u = 0 /\ blcs = <<>> /\ q2 = <<>>

InitRed ==
    /\ us0 \in SeqsUpTo(Residues, MaxUnits)
    /\ stack = <<Frame(us0, "call", <<>>)>>
    /\ retval = <<>>
    /\ mode = "run"
    /\ called = <<>>
    /\ InitSplIdle

\* line 41-42: the base case returns us itself
ReturnShort ==
    /\ mode = "run" /\ Len(stack) > 0
    /\ IsShort(Top.us)
    /\ retval' = Top.us
    /\ stack' = Pop
    /\ mode' = ReturnTo
    /\ UNCHANGED <<us0, called>>
    /\ UNCHANGED splVars

\* line 43-45: the call on us[3:]
CallTail ==
    /\ mode = "run" /\ Len(stack) > 0
    /\ ~IsShort(Top.us)
    /\ Len(stack) < MaxDepth
    /\ stack' = Append(Append(Pop, Frame(Top.us, "tail", <<>>)),
                       Frame(Tail3(Top.us), "call", <<>>))
    /\ UNCHANGED <<us0, retval, mode, called>>
    /\ UNCHANGED splVars

\* lines 46-52: extend l, at most two residues: return l
ExtendReturn ==
    /\ mode = "ret" /\ Top.at = "tail"
    /\ LET l == ExtendTriple(retval, Top.us[1], Top.us[2], Top.us[3])
       IN /\ Len(l_diag(l)) <= 2
          /\ retval' = l
    /\ called' = <<Top.us[1], Top.us[2], Top.us[3],
                   does_2adically_rep_zero(Top.us[1], Top.us[2], Top.us[3])>>
    /\ stack' = Pop
    /\ mode' = ReturnTo
    /\ UNCHANGED us0
    /\ UNCHANGED splVars

\* lines 46-55: extend l, three residues: the call on l_diag
ExtendRecurse ==
    /\ mode = "ret" /\ Top.at = "tail"
    /\ Len(stack) < MaxDepth
    /\ LET l == ExtendTriple(retval, Top.us[1], Top.us[2], Top.us[3])
       IN /\ Len(l_diag(l)) > 2
          /\ stack' = Append(Append(Pop, Frame(Top.us, "rediag", l_non_diag(l))),
                             Frame(l_diag(l), "call", <<>>))
    /\ called' = <<Top.us[1], Top.us[2], Top.us[3],
                   does_2adically_rep_zero(Top.us[1], Top.us[2], Top.us[3])>>
    /\ mode' = "run"
    /\ UNCHANGED <<us0, retval>>
    /\ UNCHANGED splVars

\* line 56: return l1 + l_non_diag
ReturnRediag ==
    /\ mode = "ret" /\ Top.at = "rediag"
    /\ retval' = retval \o Top.keep
    /\ stack' = Pop
    /\ mode' = ReturnTo
    /\ UNCHANGED <<us0, called>>
    /\ UNCHANGED splVars

NextRed ==
    \/ ReturnShort
    \/ CallTail
    \/ ExtendReturn
    \/ ExtendRecurse
    \/ ReturnRediag

SpecRed == InitRed /\ [][NextRed]_vars

\* the call stack always makes its next step: the computation is sequential
SpecRedFair == InitRed /\ [][NextRed]_vars /\ WF_vars(NextRed)

NumResidues(l) == Len(l_diag(l))
NumMarkers(l) == Len(l_non_diag(l))

\* the machine computes the function
MachineIsFunction == mode = "done" => retval = _trans_jordan_dec_2(us0)
(***************************************************************************)
(* Matrices are sequences of rows.  A unimodular constituent q1 is the     *)
(* list of its blocks as the decomposition primitive leaves them: the 1x1  *)
(* blocks <<t>> first, then the 2x2 blocks <<m00, m01, m11>>, which the    *)
(* primitive has already brought to [[0,1],[1,0]] or [[2,1],[1,2]].        *)
(***************************************************************************)
Zeros(n) == [k \in 1..n |-> 0]

DirectSum(A, B) ==
    [r \in 1..Len(A) |-> A[r] \o Zeros(Len(B))] \o
    [r \in 1..Len(B) |-> Zeros(Len(A)) \o B[r]]

BlockMatrix(b) ==
    IF Len(b) = 1 THEN << <<b[1]>> >>
    ELSE << <<b[1], b[2]>>, <<b[2], b[3]>> >>

\* line 97: q1.Gram_matrix()
RECURSIVE Gram_matrix(_)
Gram_matrix(q1) ==
    IF q1 = <<>> THEN <<>>
    ELSE DirectSum(BlockMatrix(Head(q1)), Gram_matrix(Tail(q1)))

\* line 98: m.is_zero(), true of the empty matrix
is_zero(mat) == \A r \in 1..Len(mat) : \A c \in 1..Len(mat[r]) : mat[r][c] = 0

\* lines 102, 105, 108: m.submatrix(k, k)
submatrix(mat, k) ==
    IF Len(mat) <= k THEN <<>>
    ELSE [r \in 1..(Len(mat) - k) |-> SubSeq(mat[r + k], k + 1, Len(mat))]

is_odd(n) == n % 2 = 1

(***************************************************************************)
(* Lists of blocks <<scale, b>>.                                           *)
(***************************************************************************)
RECURSIVE Flatten(_)
Flatten(ss) == IF ss = <<>> THEN <<>> ELSE Head(ss) \o Flatten(Tail(ss))

ScalesOf(l) == {l[k][1] : k \in DOMAIN l}

RECURSIVE Ascending(_)
Ascending(S) ==
    IF S = {} THEN <<>>
    ELSE LET least == CHOOSE x \in S : \A y \in S : x <= y
         IN <<least>> \o Ascending(S \ {least})

RECURSIVE Descending(_)
Descending(S) ==
    IF S = {} THEN <<>>
    ELSE LET most == CHOOSE x \in S : \A y \in S : x >= y
         IN <<most>> \o Descending(S \ {most})

AtScale(l, s) == SelectSeq(l, LAMBDA x : x[1] = s)

\* degree2.utils.list_group_by(diag_elts, lambda x: x[0]), called at line 114
list_group_by(l) ==
    LET keys == Ascending(ScalesOf(l))
    IN [k \in 1..Len(keys) |-> <<keys[k], AtScale(l, keys[k])>>]

SortedAscending(l) ==
    LET keys == Ascending(ScalesOf(l))
    IN Flatten([k \in 1..Len(keys) |-> AtScale(l, keys[k])])

\* line 121: sorted(res, key=lambda x: -x[0]); the sort is stable
SortedByScale(l) ==
    LET keys == Descending(ScalesOf(l))
    IN Flatten([k \in 1..Len(keys) |-> AtScale(l, keys[k])])

StrBlocksMut(l) == <<>>

\* line 112: the 'h'/'y' blocks of the raw list
StrBlocks(l) == SelectSeq(l, LAMBDA x : IsStr(x[2]))

\* line 113: diag_elts
diag_elts(l) == SelectSeq(l, LAMBDA x : ~IsStr(x[2]))

RetagMut(s, l) == [k \in 1..Len(l) |-> <<s, l[k]>>]

\* lines 116-120: markers go to scale a + 1, residues stay at a
Retag(s, l) ==
    [k \in 1..Len(l) |-> IF IsStr(l[k]) THEN <<s + 1, l[k]>> ELSE <<s, l[k]>>]

\* lines 112-121
Regrouped(l) ==
    LET groups == list_group_by(diag_elts(l))
    IN SortedByScale(
         StrBlocks(l) \o
         Flatten([k \in 1..Len(groups) |->
                    Retag(groups[k][1],
                          _trans_jordan_dec_2(
                            [j \in 1..Len(groups[k][2]) |-> groups[k][2][j][2]]))]))

\* line 74: list(reversed(res))
Reversed(l) == [k \in 1..Len(l) |-> l[Len(l) + 1 - k]]

\* sage legendre_symbol(t, p), called at line 70
legendre_symbol(t, pp) ==
    IF t % pp = 0 THEN 0
    ELSE IF \E x \in 1..(pp - 1) : (x * x) % pp = t % pp THEN 1 ELSE -1

\* sage least_quadratic_nonresidue(p), called at line 67
least_quadratic_nonresidue(pp) ==
    CHOOSE n \in 1..(pp - 1) :
        /\ legendre_symbol(n, pp) = -1
        /\ \A k \in 1..(n - 1) : legendre_symbol(k, pp) # -1

\* lines 69-73: one block per diagonal entry of q1
ClassifyOdd(s, q1, pp, uu) ==
    [k \in 1..Len(q1) |->
        IF legendre_symbol(q1[k][1], pp) = 1 THEN <<s, 1>> ELSE <<s, uu>>]
(***************************************************************************)
(* The inputs: the prime argument and the decomposition of the form.       *)
(***************************************************************************)
PrimeArgs == {2, 3, 5, 21}
ValidPrimes == {2, 3, 5}

UnitEntries2 == {1, 3, 5, 15}
EvenBlocks == {<<0, 1, 0>>, <<2, 1, 2>>}

BlockRank(b) == IF Len(b) = 1 THEN 1 ELSE 2

RECURSIVE Rank(_)
Rank(q1) == IF q1 = <<>> THEN 0 ELSE BlockRank(Head(q1)) + Rank(Tail(q1))

MaxRankAt(pp) == IF pp = 2 THEN MaxRank ELSE MaxRankOdd

\* the diagonal entries of a constituent: odd numbers at 2, and at an odd
\* pp numbers below pp
Entries(pp) ==
    IF pp = 2 THEN UnitEntries2 ELSE {n \in 1..(pp - 1) : n <= MaxEntry}

RECURSIVE SumUpTo(_, _, _)
SumUpTo(sh, c, s) == IF s < 0 THEN 0 ELSE sh[s][c] + SumUpTo(sh, c, s - 1)

\* a shape gives, for every scale, the number of 1x1 and of 2x2 blocks of
\* the constituent at that scale (none: no constituent at that scale)
Shapes(pp) ==
    {sh \in [0..MaxScale ->
               (0..MaxRankAt(pp)) \X (0..(IF pp = 2 THEN MaxRank \div 2 ELSE 0))] :
        LET r == SumUpTo(sh, 1, MaxScale) + 2 * SumUpTo(sh, 2, MaxScale)
        IN 1 <= r /\ r <= MaxRankAt(pp)}

\* the constituents in ascending order of scale, each with its 1x1 blocks
\* before its 2x2 blocks
RECURSIVE Decomposition(_, _, _, _)
Decomposition(sh, s, ts, bs) ==
    IF s > MaxScale THEN <<>>
    ELSE LET n == sh[s][1]
             k == sh[s][2]
             q1 == [j \in 1..n |-> <<ts[j]>>] \o SubSeq(bs, 1, k)
         IN (IF n + k = 0 THEN <<>> ELSE << <<s, q1>> >>) \o
            Decomposition(sh, s + 1, SubSeq(ts, n + 1, Len(ts)),
                          SubSeq(bs, k + 1, Len(bs)))

InitRedIdle ==
    /\ us0 = <<>> /\ stack = <<>> /\ retval = <<>> /\ mode = "idle" /\ called = <<>>

Init ==
    /\ p \in PrimeArgs
    /\ \E sh \in Shapes(p) :
         \E ts \in [1..SumUpTo(sh, 1, MaxScale) -> Entries(p)] :
            \E bs \in [1..SumUpTo(sh, 2, MaxScale) -> EvenBlocks] :
               q = Decomposition(sh, 0, ts, bs)
    /\ pc = "start"
    /\ i = 0 /\ a = 0 /\ m = <<>>
    /\ ls = <<>> /\ res = <<>> /\ u = 0 /\ blcs = <<>> /\ q2 = <<>>
    /\ InitRedIdle

(***************************************************************************)
(* siegel_series_polynomial, lines 129-135: nothing but p == 2 is tested.  *)
(***************************************************************************)
siegel_series_polynomial ==
    /\ pc = "start"
    /\ IF p = 2
       THEN /\ pc' = "for_2"
            /\ i' = 1
       ELSE /\ pc' = "odd_entry"
            /\ i' = i
    /\ UNCHANGED <<q, p, a, m, ls, res, u, blcs, q2>>
    /\ UNCHANGED redVars

(***************************************************************************)
(* jordan_blocks_2                                                         *)
(***************************************************************************)
\* lines 96-97: the next (a, q1)
ForScale2 ==
    /\ pc = "for_2" /\ i <= Len(q)
    /\ a' = q[i][1]
    /\ m' = Gram_matrix(q[i][2])
    /\ pc' = "while"
    /\ UNCHANGED <<p, q, i, ls, res, u, blcs, q2>>
    /\ UNCHANGED redVars

\* lines 100-102
PeelUnit ==
    /\ pc = "while" /\ ~is_zero(m)
    /\ is_odd(m[1][1])
    /\ ls' = Append(ls, <<a, m[1][1] % 8>>)
    /\ m' = submatrix(m, 1)
    /\ UNCHANGED <<p, q, pc, i, a, res, u, blcs, q2>>
    /\ UNCHANGED redVars

\* lines 103-105
PeelHyp ==
    /\ pc = "while" /\ ~is_zero(m)
    /\ ~is_odd(m[1][1]) /\ m[1][1] = 0
    /\ ls' = Append(ls, <<a + 1, hyp2_name>>)
    /\ m' = submatrix(m, 2)
    /\ UNCHANGED <<p, q, pc, i, a, res, u, blcs, q2>>
    /\ UNCHANGED redVars

\* lines 106-108
PeelY ==
    /\ pc = "while" /\ ~is_zero(m)
    /\ ~is_odd(m[1][1]) /\ m[1][1] # 0
    /\ ls' = Append(ls, <<a + 1, y2_name>>)
    /\ m' = submatrix(m, 2)
    /\ UNCHANGED <<p, q, pc, i, a, res, u, blcs, q2>>
    /\ UNCHANGED redVars

\* line 98: the while loop ends, the for loop goes on
WhileExit ==
    /\ pc = "while" /\ is_zero(m)
    /\ i' = i + 1
    /\ pc' = "for_2"
    /\ UNCHANGED <<p, q, a, m, ls, res, u, blcs, q2>>
    /\ UNCHANGED redVars

\* lines 112-121
RegroupAndSort ==
    /\ pc = "for_2" /\ i > Len(q)
    /\ blcs' = Regrouped(ls)
    /\ pc' = "returned"
    /\ UNCHANGED <<p, q, i, a, m, ls, res, u, q2>>
    /\ UNCHANGED redVars

(***************************************************************************)
(* jordan_blocks_odd                                                       *)
(***************************************************************************)
\* The library calls of lines 67, 68 and 70 are the only place an argument
\* that is no odd prime can be refused; whether one of them raises depends
\* on the argument.
LibraryRaises ==
    /\ pc \in {"odd_entry", "for_odd"}
    /\ p \notin ValidPrimes
    /\ pc' = "raised"
    /\ UNCHANGED <<p, q, i, a, m, ls, res, u, blcs, q2>>
    /\ UNCHANGED redVars

\* lines 65-67
OddEntry ==
    /\ pc = "odd_entry"
    /\ u' = least_quadratic_nonresidue(p)
    /\ res' = <<>>
    /\ i' = 1
    /\ pc' = "for_odd"
    /\ UNCHANGED <<p, q, a, m, ls, blcs, q2>>
    /\ UNCHANGED redVars

\* lines 68-73: one scale class
ForScaleOdd ==
    /\ pc = "for_odd" /\ i <= Len(q)
    /\ a' = q[i][1]
    /\ res' = res \o ClassifyOdd(q[i][1], q[i][2], p, u)
    /\ i' = i + 1
    /\ UNCHANGED <<p, q, pc, m, ls, u, blcs, q2>>
    /\ UNCHANGED redVars

\* line 74
ReturnOdd ==
    /\ pc = "for_odd" /\ i > Len(q)
    /\ blcs' = Reversed(res)
    /\ pc' = "returned"
    /\ UNCHANGED <<p, q, i, a, m, ls, res, u, q2>>
    /\ UNCHANGED redVars

(***************************************************************************)
(* _siegel_series_polynomial_2 and _siegel_series_polynomial_odd           *)
(***************************************************************************)
\* lines 151-153
unit_diags(bl) ==
    SelectSeq(bl, LAMBDA x : x[1] = bl[1][1] /\ ~IsStr(x[2]))

\* lines 154-157: the Theorem 4.1 branch takes blcs[1:]
Theorem41 ==
    /\ pc = "returned" /\ p = 2
    /\ Len(unit_diags(blcs)) = 1
    /\ q2' = Tail(blcs)
    /\ pc' = "thm41"
    /\ UNCHANGED <<p, q, i, a, m, ls, res, u, blcs>>
    /\ UNCHANGED redVars

\* lines 159-160
ElsePass ==
    /\ pc = "returned" /\ p = 2
    /\ Len(unit_diags(blcs)) # 1
    /\ pc' = "pass"
    /\ UNCHANGED <<p, q, i, a, m, ls, res, u, blcs, q2>>
    /\ UNCHANGED redVars

\* lines 162-163
PolynomialOdd ==
    /\ pc = "returned" /\ p # 2
    /\ pc' = "pass"
    /\ UNCHANGED <<p, q, i, a, m, ls, res, u, blcs, q2>>
    /\ UNCHANGED redVars

Next ==
    \/ siegel_series_polynomial
    \/ ForScale2
    \/ PeelUnit
    \/ PeelHyp
    \/ PeelY
    \/ WhileExit
    \/ RegroupAndSort
    \/ LibraryRaises
    \/ OddEntry
    \/ ForScaleOdd
    \/ ReturnOdd
    \/ Theorem41
    \/ ElsePass
    \/ PolynomialOdd

Spec == Init /\ [][Next]_vars
(***************************************************************************)
(* Quadratic forms and their local invariants.  A form is a list of terms  *)
(* <<e, H>>: the orthogonal summand QuadraticForm(ZZ, p^e * H), H being    *)
(* the 1x1 or 2x2 matrix handed to the constructor (twice the Gram         *)
(* matrix).                                                                *)
(***************************************************************************)
TimesTwo(mat) == [r \in 1..Len(mat) |-> [c \in 1..Len(mat[r]) |-> 2 * mat[r][c]]]

\* the form jordan_blocks_by_scale_and_unimodular has decomposed:
\* the orthogonal sum of p^a * q1
FormOf(dec) ==
    Flatten([k \in 1..Len(dec) |->
               [j \in 1..Len(dec[k][2]) |->
                  <<dec[k][1], TimesTwo(BlockMatrix(dec[k][2][j]))>>]])

\* line 146: the exponent of p in m * ZZ(2) * p**idx
LiftScale(idx) == idx

\* lines 139-146: 2 * h, 2 * y and 2 * matrix([[qf]])
_blocks_to_quad_form(bl) ==
    [k \in 1..Len(bl) |->
        <<LiftScale(bl[k][1]),
          IF bl[k][2] = hyp2_name THEN << <<0, 1>>, <<1, 0>> >>
          ELSE IF bl[k][2] = y2_name THEN << <<2, 1>>, <<1, 2>> >>
          ELSE << <<2 * bl[k][2]>> >> >>]

RECURSIVE SumSeq(_)
SumSeq(ns) == IF ns = <<>> THEN 0 ELSE Head(ns) + SumSeq(Tail(ns))

RECURSIVE ProdSeq(_)
ProdSeq(ns) == IF ns = <<>> THEN 1 ELSE Head(ns) * ProdSeq(Tail(ns))

\* q.dim()
dim(F) == SumSeq([k \in 1..Len(F) |-> Len(F[k][2])])

Det(H) == IF Len(H) = 1 THEN H[1][1] ELSE H[1][1] * H[2][2] - H[1][2] * H[2][1]

\* valuation(n, pp) of a nonzero integer
RECURSIVE valuation(_, _)
valuation(n, pp) == IF n % pp # 0 THEN 0 ELSE 1 + valuation(n \div pp, pp)

RECURSIVE UnitPart(_, _)
UnitPart(n, pp) == IF n % pp # 0 THEN n ELSE UnitPart(n \div pp, pp)

\* the Gram matrix of a term is p^e * H / 2; its determinant as
\* <<valuation at pp, unit part>>, a 1x1 term having the entry H[1][1] / 2
TermDet(t, pp) ==
    IF Len(t[2]) = 1
    THEN <<t[1] + valuation(t[2][1][1] \div 2, pp), UnitPart(t[2][1][1] \div 2, pp)>>
    ELSE <<2 * t[1] - 2 + valuation(Det(t[2]), pp), UnitPart(Det(t[2]), pp)>>

\* the class of the unit part: mod 8 at 2, the Legendre symbol at an odd pp
UnitClass(n, pp) == IF pp = 2 THEN n % 8 ELSE legendre_symbol(n, pp)

MulClass(x, y, pp) == IF pp = 2 THEN (x * y) % 8 ELSE x * y

RECURSIVE ProdClass(_, _)
ProdClass(cs, pp) ==
    IF cs = <<>> THEN 1 ELSE MulClass(Head(cs), ProdClass(Tail(cs), pp), pp)

\* q.Gram_det() as <<valuation, class of the unit part>>: two determinants
\* have a quotient that is 1 mod 8 (Kronecker symbol 1 at an odd pp) exactly
\* when these pairs are equal
Gram_det(F, pp) ==
    <<SumSeq([k \in 1..Len(F) |-> TermDet(F[k], pp)[1]]),
      ProdClass([k \in 1..Len(F) |-> UnitClass(TermDet(F[k], pp)[2], pp)], pp)>>

\* the square class of pp^e * n: <<parity of the valuation, unit class>>
SquareClass(e, n, pp) ==
    <<(e + valuation(n, pp)) % 2, UnitClass(UnitPart(n, pp), pp)>>

\* a diagonalisation over Q_p of the Gram matrix of a term
Diagonal(t, pp) ==
    IF Len(t[2]) = 1 THEN <<SquareClass(t[1], t[2][1][1] \div 2, pp)>>
    ELSE IF t[2][1][1] = 0
    THEN <<SquareClass(0, 1, pp), SquareClass(0, -1, pp)>>
    ELSE <<SquareClass(t[1] - 1, t[2][1][1], pp),
           SquareClass(t[1] - 1, t[2][1][1] * Det(t[2]), pp)>>

Sign(n) == IF n % 2 = 0 THEN 1 ELSE -1

\* the Hilbert symbol (x, y)_pp of two square classes
hilbert_symbol(x, y, pp) ==
    IF pp = 2
    THEN Sign(((x[2] - 1) \div 2) * ((y[2] - 1) \div 2)
              + x[1] * ((y[2] * y[2] - 1) \div 8)
              + y[1] * ((x[2] * x[2] - 1) \div 8))
    ELSE Sign(x[1] * y[1] * ((pp - 1) \div 2))
         * (IF y[1] = 1 THEN x[2] ELSE 1) * (IF x[1] = 1 THEN y[2] ELSE 1)

\* q.hasse_invariant__OMeara(p): the product of (d_i, d_j) over i <= j
hasse_invariant(F, pp) ==
    LET d == Flatten([k \in 1..Len(F) |-> Diagonal(F[k], pp)])
    IN ProdSeq(Flatten([k \in 1..Len(d) |->
                          [j \in 1..k |-> hilbert_symbol(d[j], d[k], pp)]]))

\* tests/jordan_block_test.py, assert_jordan_blocks_method
Equivalent(F, G, pp) ==
    /\ dim(F) = dim(G)
    /\ Gram_det(F, pp) = Gram_det(G, pp)
    /\ hasse_invariant(F, pp) = hasse_invariant(G, pp)

BlockListRank(bl) ==
    SumSeq([k \in 1..Len(bl) |-> IF IsStr(bl[k][2]) THEN 2 ELSE 1])

\* jordan_blocks_2 or jordan_blocks_odd has just returned blcs
Returned == pc = "returned"
RawUnitsAt(s) == Len(AtScale(diag_elts(ls), s))

C2_RankPreserved ==
    /\ (Returned /\ p \in ValidPrimes) => BlockListRank(blcs) = dim(FormOf(q))
    /\ pc = "while" =>
         BlockListRank(ls) + Len(m) = dim(FormOf(SubSeq(q, 1, i)))

C2_Witness ==
    /\ pc = "returned" /\ p = 2
    /\ \E k \in DOMAIN ls : IsStr(ls[k][2])
    /\ \E s \in ScalesOf(ls) : RawUnitsAt(s) >= 3
    /\ BlockListRank(blcs) = 5

(***************************************************************************)
(* C3: at every scale of the list jordan_blocks_2 returns there are at     *)
(* most two unit blocks, each with b in {1, 3, 5, 7}.                      *)
(***************************************************************************)
C3_ScaleBound ==
    (Returned /\ p = 2) =>
        \A s \in ScalesOf(blcs) :
            /\ Len(diag_elts(AtScale(blcs, s))) <= 2
            /\ \A k \in DOMAIN blcs : IsStr(blcs[k][2]) \/ blcs[k][2] \in Residues

C3_Witness ==
    /\ pc = "returned" /\ p = 2
    /\ \E s \in ScalesOf(ls) : RawUnitsAt(s) >= 4 /\ Len(diag_elts(AtScale(blcs, s))) = 2

(***************************************************************************)
(* C4: the returned list is sorted by non-increasing scale, for            *)
(* jordan_blocks_2 and for jordan_blocks_odd.                              *)
(***************************************************************************)
C4_SortedByScale ==
    (Returned /\ p \in ValidPrimes) =>
        \A k \in 1..(Len(blcs) - 1) : blcs[k][1] >= blcs[k + 1][1]

\* a marker made by the reducer at scale 0 lands among the blocks of scale 1
C4_Witness ==
    /\ pc = "returned" /\ p = 2
    /\ RawUnitsAt(0) >= 3 /\ RawUnitsAt(1) >= 1
    /\ \E k \in DOMAIN blcs : blcs[k][1] = 1 /\ IsStr(blcs[k][2])
    /\ blcs[1][1] > blcs[Len(blcs)][1]

(***************************************************************************)
(* C5: does_2adically_rep_zero(a, b, c) is True exactly when               *)
(* a*x^2 + b*y^2 + c*z^2 = 0 mod 8 has an integer solution with x, y, z    *)
(* not all even.                                                           *)
(***************************************************************************)
HasPrimitiveZeroMod8(ca, cb, cc) ==
    \E x \in 0..7 : \E y \in 0..7 : \E z \in 0..7 :
        /\ ~(x % 2 = 0 /\ y % 2 = 0 /\ z % 2 = 0)
        /\ (ca * x * x + cb * y * y + cc * z * z) % 8 = 0

C5_OracleCorrect ==
    called # <<>> =>
        (called[4] <=> HasPrimitiveZeroMod8(called[1], called[2], called[3]))

C5_Witness == called # <<>> /\ called[1] = 1 /\ called[2] = 3 /\ called[3] = 5

C8_ReducerRank ==
    /\ mode = "done" =>
         /\ NumResidues(retval) + 2 * NumMarkers(retval) = Len(us0)
         /\ Len(us0) <= 2 => retval = us0
    /\ \A k \in DOMAIN stack :
         stack[k].at = "rediag" => Len(stack[k].us) % 2 = 1 /\ Len(stack[k].us) >= 5

C8_Witness ==
    /\ mode = "done" /\ Len(us0) = 5
    /\ NumResidues(retval) = 1 /\ NumMarkers(retval) = 2

(***************************************************************************)
(* C9: _trans_jordan_dec_2 terminates, and every recursive call gets a     *)
(* strictly shorter list than its caller got.                              *)
(***************************************************************************)
ShorterCall ==
    Len(stack') > Len(stack) =>
        Len(stack'[Len(stack')].us) < Len(stack[Len(stack)].us)

C9_ReducerTerminates == [][ShorterCall]_vars /\ <>(mode = "done")

\* inside the call on l_diag, which is in its own call on us[3:]
C9_Witness ==
    /\ Len(stack) >= 3
    /\ stack[Len(stack) - 2].at = "rediag"
    /\ stack[Len(stack) - 1].at = "tail"

(***************************************************************************)
(* C10: when exactly one unit block lies at the maximum scale, it is       *)
(* blcs[0], so that blcs[1:] is the list without that unit.                *)
(***************************************************************************)
WithoutTopUnit(bl) ==
    SelectSeq(bl, LAMBDA x : ~(x[1] = bl[1][1] /\ ~IsStr(x[2])))

C10_LeadingUnit ==
    pc = "thm41" => ~IsStr(blcs[1][2]) /\ q2 = WithoutTopUnit(blcs)
====
